---------------------------- MODULE Spec2Model ----------------------------
(***************************************************************************)
(* QtGLVideoItem / QtGLVideoItemInterface (ext/qt/qtitem.cc).              *)
(*                                                                         *)
(* Two threads of control:                                                 *)
(*   - the producer (streaming) thread, which calls the methods of         *)
(*     QtGLVideoItemInterface (the proxy); every such method takes the     *)
(*     proxy's QMutex first (QMutexLocker) and holds it until it returns;  *)
(*   - the host (Qt) side, which calls updatePaintNode, the scene graph    *)
(*     callbacks, the texture's bind and finally the destructor.  Qt never *)
(*     runs two of these at once, so they form one sequential process.     *)
(*                                                                         *)
(* A handler is split only where it may block on a mutex: the step that    *)
(* ends in front of g_mutex_lock, the step that takes the mutex, and the   *)
(* critical section up to the unlock.                                      *)
(***************************************************************************)
EXTENDS Integers, Sequences, FiniteSets, TLC

\* ------------------------------------------------------------------ bounds

\* Number of distinct GstBuffers the producer may deliver (each any number
\* of times).
NumFrames == 3

\* ------------------------------------------------------- program constants

DEFAULT_FORCE_ASPECT_RATIO == TRUE
DEFAULT_PAR_N == 0
DEFAULT_PAR_D == 1

\* ------------------------------------------------------------------ values

\* A NULL GstBuffer pointer; the buffers are 1..NumFrames.
NoBuffer == 0
Frames == 1 .. NumFrames

\* Fixed caps the producer may offer.  GstVideoInfoOf gives what
\* gst_video_info_from_caps reads from them (width, height, pixel aspect
\* ratio); CapsNotVideo are caps from which no video info can be read, and
\* CapsDegenerate describe a zero-height stream, for which
\* gst_video_calculate_display_ratio fails.
CapsA == "video 4x2 par 1/1"
CapsB == "video 3x1 par 1/2"
CapsDegenerate == "video 4x0 par 1/1"
CapsNotVideo == "not video"
OfferedCaps == {CapsA, CapsB, CapsDegenerate, CapsNotVideo}

GstVideoInfoOf(c) ==
    CASE c = CapsA          -> [ok |-> TRUE,  width |-> 4, height |-> 2, par_n |-> 1, par_d |-> 1]
      [] c = CapsB          -> [ok |-> TRUE,  width |-> 3, height |-> 1, par_n |-> 1, par_d |-> 2]
      [] c = CapsDegenerate -> [ok |-> TRUE,  width |-> 4, height |-> 0, par_n |-> 1, par_d |-> 1]
      [] OTHER              -> [ok |-> FALSE, width |-> 0, height |-> 0, par_n |-> 0, par_d |-> 1]

\* The GstVideoInfo a zeroed or not yet written v_info holds.
NoVideoInfo == [ok |-> FALSE, width |-> 0, height |-> 0, par_n |-> 0, par_d |-> 1]

VARIABLES
    priv,            \* _QtGLVideoItemPrivate: the render-side state
    item,            \* QtGLVideoItem's own members and what the host knows of it
    proxy,           \* QtGLVideoItemInterface: its QMutex and its qt_item pointer
    tex,             \* the GstQSGTexture of the item's paint node
    refs,            \* per GstBuffer, the references the item side holds on it
    update_pending,  \* an "update" invocation is queued on the host
    producer,        \* the producer thread: position, call, arguments, return value
    render,          \* the host side: position, return value
    last_delivered,  \* history: the buffer of the last accepted setBuffer since the last reset
    slot_caps,       \* history: priv.caps when the slot's buffer was delivered
    last_released    \* history: the buffers the last paint's exchange let go

vars == <<priv, item, proxy, tex, refs, update_pending, producer, render,
          last_delivered, slot_caps, last_released>>


\* ------------------------------------------------- GstBuffer reference counts

\* gst_buffer_ref / gst_buffer_unref on a buffer pointer, as a change of the
\* references the item side holds.  Neither is called on NULL in this file.
gst_buffer_ref(r, b) == IF b = NoBuffer THEN r ELSE [r EXCEPT ![b] = @ + 1]

gst_buffer_unref(r, b) == IF b = NoBuffer THEN r ELSE [r EXCEPT ![b] = @ - 1]

\* gst_buffer_replace (&slot, new): nothing when the slot already holds new;
\* otherwise new gains a reference and the old buffer loses the slot's.
gst_buffer_replace(r, old, new) ==
    IF old = new THEN r ELSE gst_buffer_unref(gst_buffer_ref(r, new), old)

\* while ((tmp = g_queue_pop_head (q))) gst_buffer_unref (tmp);
RECURSIVE UnrefQueue(_, _)
UnrefQueue(r, q) ==
    IF q = <<>> THEN r ELSE UnrefQueue(gst_buffer_unref(r, Head(q)), Tail(q))

\* ------------------------------------------------------------- GstQSGTexture

\* A paint node that does not exist yet (oldNode == NULL).
NoTexture == [node |-> FALSE, buffer |-> NoBuffer, caps |-> "NULL",
              was_bound |-> FALSE, rect |-> <<"none">>]

\* new QSGSimpleTextureNode with a new GstQSGTexture: no buffer, no caps.
NewTexture == [NoTexture EXCEPT !.node = TRUE]

\* GstQSGTexture::setBuffer: replaces the texture's buffer; a buffer that is
\* new to the texture has not been bound yet.
GstQSGTexture_setBuffer(t, b) ==
    IF t.buffer = b THEN t ELSE [t EXCEPT !.buffer = b, !.was_bound = FALSE]

\* GstQSGTexture::setCaps
GstQSGTexture_setCaps(t, c) == [t EXCEPT !.caps = c]

\* ------------------------------------------------------------------ geometry

RECURSIVE Gcd(_, _)
Gcd(a, b) == IF b = 0 THEN a ELSE Gcd(b, a % b)

\* gst_video_calculate_display_ratio: (width * par_n * display_par_d) /
\* (height * par_d * display_par_n), reduced; FALSE when a denominator is
\* zero or the fraction is not positive.
gst_video_calculate_display_ratio(width, height, par_n, par_d, dpar_n, dpar_d) ==
    LET num == width * par_n * dpar_d
        den == height * par_d * dpar_n
    IN  IF num <= 0 \/ den <= 0
        THEN [ok |-> FALSE, num |-> 0, den |-> 1]
        ELSE [ok |-> TRUE, num |-> num \div Gcd(num, den), den |-> den \div Gcd(num, den)]

\* _calculate_par: FALSE, or the display size computed from the video info
\* and the configured pixel aspect ratio.
calculate_par(p, info) ==
    LET par_n  == IF info.par_n = 0 THEN 1 ELSE info.par_n
        dpar_n == IF p.par_n # 0 /\ p.par_d # 0 THEN p.par_n ELSE 1
        dpar_d == IF p.par_n # 0 /\ p.par_d # 0 THEN p.par_d ELSE 1
        dar    == gst_video_calculate_display_ratio(info.width, info.height,
                      par_n, info.par_d, dpar_n, dpar_d)
    IN  IF ~dar.ok
        THEN [ok |-> FALSE, display_width |-> p.display_width,
              display_height |-> p.display_height]
        ELSE IF info.height % dar.den = 0
        THEN [ok |-> TRUE, display_width |-> (info.height * dar.num) \div dar.den,
              display_height |-> info.height]
        ELSE IF info.width % dar.num = 0
        THEN [ok |-> TRUE, display_width |-> info.width,
              display_height |-> (info.width * dar.den) \div dar.num]
        ELSE [ok |-> TRUE, display_width |-> (info.height * dar.num) \div dar.den,
              display_height |-> info.height]

\* --------------------------------------------------------------------- Init

Init ==
    /\ priv = [lock |-> "free",
               force_aspect_ratio |-> DEFAULT_FORCE_ASPECT_RATIO,
               par_n |-> DEFAULT_PAR_N, par_d |-> DEFAULT_PAR_D,
               sink |-> "NULL",
               display_width |-> 0, display_height |-> 0,
               negotiated |-> FALSE,
               buffer |-> NoBuffer,
               caps |-> "NULL",
               v_info |-> NoVideoInfo,
               initted |-> FALSE,
               display |-> "display",
               qt_context |-> "NULL",
               other_context |-> "NULL",
               context |-> "NULL",
               bound_buffers |-> <<>>,
               potentially_unbound_buffers |-> <<>>]
    /\ item = [m_openGlContextInitialized |-> FALSE, window |-> "NULL",
               implicit |-> <<0, 0>>]
    /\ proxy = [lock |-> "free", qt_item |-> "item"]
    /\ tex = NoTexture
    /\ refs = [f \in Frames |-> 0]
    /\ update_pending = FALSE
    /\ producer = [pc |-> "idle", op |-> "none", buffer |-> NoBuffer, caps |-> "NULL",
                   sink |-> "NULL", ret |-> "none"]
    /\ render = [pc |-> "idle", ret |-> "none"]
    /\ last_delivered = NoBuffer
    /\ slot_caps = "NULL"
    /\ last_released = <<>>

\* ------------------------------------------------------------------- _reset

\* _reset as it would be without the gst_buffer_replace of the slot.
reset_keeps_slot(p, r) ==
    [priv |-> [p EXCEPT !.caps = "NULL",
                        !.negotiated = FALSE,
                        !.initted = FALSE,
                        !.potentially_unbound_buffers = <<>>,
                        !.bound_buffers = <<>>],
     refs |-> UnrefQueue(UnrefQueue(r, p.potentially_unbound_buffers),
                         p.bound_buffers)]

\* _reset: clears the slot and the caps, drops negotiated and initted, and
\* unrefs every buffer of both queues.  Gives the new priv and the new refs.
reset(p, r) ==
    [priv |-> [p EXCEPT !.buffer = NoBuffer,
                        !.caps = "NULL",
                        !.negotiated = FALSE,
                        !.initted = FALSE,
                        !.potentially_unbound_buffers = <<>>,
                        !.bound_buffers = <<>>],
     refs |-> UnrefQueue(
                  UnrefQueue(gst_buffer_replace(r, p.buffer, NoBuffer),
                             p.potentially_unbound_buffers),
                  p.bound_buffers)]

\* ------------------------------------------------- the producer: what a call
\* leaves behind when it returns (the QMutexLocker releases the proxy's lock)

Returned(op, ret) ==
    [pc |-> "idle", op |-> op, buffer |-> NoBuffer, caps |-> "NULL", sink |-> "NULL",
     ret |-> ret]

\* The QMutexLocker at the top of every proxy method can take the lock.
QMutexLocker == proxy.lock = "free"

\* A proxy method that returns without having had to wait for priv->lock:
\* the QMutexLocker took and released the proxy's lock within the step.
ReturnAtOnce(op, ret) ==
    /\ producer' = Returned(op, ret)
    /\ UNCHANGED <<priv, item, proxy, tex, refs, update_pending, render,
                   last_delivered, slot_caps, last_released>>

\* A proxy method that goes on to g_mutex_lock (&priv->lock), holding the
\* proxy's lock.
GoOnTo(op, pc, buffer, caps, sink) ==
    /\ producer' = [pc |-> pc, op |-> op, buffer |-> buffer, caps |-> caps,
                    sink |-> sink, ret |-> "none"]
    /\ proxy' = [proxy EXCEPT !.lock = "producer"]
    /\ UNCHANGED <<priv, item, tex, refs, update_pending, render,
                   last_delivered, slot_caps, last_released>>

\* g_mutex_lock (&qt_item->priv->lock) by the producer, at position from.
producer_g_mutex_lock(from, to) ==
    /\ producer.pc = from
    /\ priv.lock = "free"
    /\ priv' = [priv EXCEPT !.lock = "producer"]
    /\ producer' = [producer EXCEPT !.pc = to]
    /\ UNCHANGED <<item, proxy, tex, refs, update_pending, render,
                   last_delivered, slot_caps, last_released>>

\* ---------------------------------------------------------------- setBuffer

\* setBuffer up to g_mutex_lock as it would be without the test of
\* negotiated.
setBuffer_begin_unnegotiated(buffer) ==
    /\ producer.pc = "idle"
    /\ QMutexLocker
    /\ IF proxy.qt_item = "NULL" THEN ReturnAtOnce("setBuffer", "void")
       ELSE GoOnTo("setBuffer", "setBuffer_lock", buffer, "NULL", "NULL")

\* QtGLVideoItemInterface::setBuffer up to g_mutex_lock: ignored when the
\* item is gone, dropped when the item is not negotiated.
setBuffer_begin(buffer) ==
    /\ producer.pc = "idle"
    /\ QMutexLocker
    /\ IF proxy.qt_item = "NULL" THEN ReturnAtOnce("setBuffer", "void")
       ELSE IF ~priv.negotiated THEN ReturnAtOnce("setBuffer", "void")
       ELSE GoOnTo("setBuffer", "setBuffer_lock", buffer, "NULL", "NULL")

setBuffer_lock == producer_g_mutex_lock("setBuffer_lock", "setBuffer_locked")

\* setBuffer's critical section as it would be if it stored a buffer only
\* into an empty slot.
setBuffer_locked_keeps_first ==
    /\ producer.pc = "setBuffer_locked"
    /\ LET stored == IF priv.buffer = NoBuffer THEN producer.buffer ELSE priv.buffer
       IN  /\ refs' = gst_buffer_replace(refs, priv.buffer, stored)
           /\ priv' = [priv EXCEPT !.buffer = stored, !.lock = "free"]
    /\ update_pending' = TRUE
    /\ proxy' = [proxy EXCEPT !.lock = "free"]
    /\ producer' = Returned("setBuffer", "void")
    /\ last_delivered' = producer.buffer
    /\ slot_caps' = priv.caps
    /\ UNCHANGED <<item, tex, render, last_released>>

\* setBuffer's critical section as it would be without the queued "update".
setBuffer_locked_no_update ==
    /\ producer.pc = "setBuffer_locked"
    /\ refs' = gst_buffer_replace(refs, priv.buffer, producer.buffer)
    /\ priv' = [priv EXCEPT !.buffer = producer.buffer, !.lock = "free"]
    /\ proxy' = [proxy EXCEPT !.lock = "free"]
    /\ producer' = Returned("setBuffer", "void")
    /\ last_delivered' = producer.buffer
    /\ slot_caps' = priv.caps
    /\ UNCHANGED <<item, tex, update_pending, render, last_released>>

\* setBuffer's critical section: gst_buffer_replace of the slot, the queued
\* "update", the unlock and the return.
setBuffer_locked ==
    /\ producer.pc = "setBuffer_locked"
    /\ refs' = gst_buffer_replace(refs, priv.buffer, producer.buffer)
    /\ priv' = [priv EXCEPT !.buffer = producer.buffer, !.lock = "free"]
    /\ update_pending' = TRUE
    /\ proxy' = [proxy EXCEPT !.lock = "free"]
    /\ producer' = Returned("setBuffer", "void")
    /\ last_delivered' = producer.buffer
    /\ slot_caps' = priv.caps
    /\ UNCHANGED <<item, tex, render, last_released>>

\* ------------------------------------------------------------------ setCaps

\* setCaps up to g_mutex_lock as it would be without the test of qt_item.
setCaps_begin_unguarded(caps) ==
    /\ producer.pc = "idle"
    /\ QMutexLocker
    /\ IF priv.caps # "NULL" /\ priv.caps = caps THEN ReturnAtOnce("setCaps", "TRUE")
       ELSE IF ~GstVideoInfoOf(caps).ok THEN ReturnAtOnce("setCaps", "FALSE")
       ELSE GoOnTo("setCaps", "setCaps_lock", NoBuffer, caps, "NULL")

\* setCaps up to g_mutex_lock as it would be without the comparison with
\* the stored caps.
setCaps_begin_no_equal_test(caps) ==
    /\ producer.pc = "idle"
    /\ QMutexLocker
    /\ IF proxy.qt_item = "NULL" THEN ReturnAtOnce("setCaps", "FALSE")
       ELSE IF ~GstVideoInfoOf(caps).ok THEN ReturnAtOnce("setCaps", "FALSE")
       ELSE GoOnTo("setCaps", "setCaps_lock", NoBuffer, caps, "NULL")

\* QtGLVideoItemInterface::setCaps up to g_mutex_lock.
setCaps_begin(caps) ==
    /\ producer.pc = "idle"
    /\ QMutexLocker
    /\ IF proxy.qt_item = "NULL" THEN ReturnAtOnce("setCaps", "FALSE")
       ELSE IF priv.caps # "NULL" /\ priv.caps = caps THEN ReturnAtOnce("setCaps", "TRUE")
       ELSE IF ~GstVideoInfoOf(caps).ok THEN ReturnAtOnce("setCaps", "FALSE")
       ELSE GoOnTo("setCaps", "setCaps_lock", NoBuffer, caps, "NULL")

setCaps_lock == producer_g_mutex_lock("setCaps_lock", "setCaps_locked")

\* setCaps's critical section as it would be if the return after a failed
\* _calculate_par left priv->lock locked.
setCaps_locked_no_unlock_on_failure ==
    /\ producer.pc = "setCaps_locked"
    /\ LET v_info == GstVideoInfoOf(producer.caps)
           rs     == reset(priv, refs)
           p1     == [rs.priv EXCEPT !.caps = producer.caps]
           par    == calculate_par(p1, v_info)
       IN  /\ refs' = rs.refs
           /\ IF ~par.ok
              THEN /\ priv' = p1
                   /\ item' = item
                   /\ producer' = Returned("setCaps", "FALSE")
              ELSE /\ priv' = [p1 EXCEPT !.display_width = par.display_width,
                                         !.display_height = par.display_height,
                                         !.v_info = v_info,
                                         !.negotiated = TRUE,
                                         !.lock = "free"]
                   /\ item' = [item EXCEPT !.implicit = <<v_info.width, v_info.height>>]
                   /\ producer' = Returned("setCaps", "TRUE")
    /\ proxy' = [proxy EXCEPT !.lock = "free"]
    /\ last_delivered' = NoBuffer
    /\ UNCHANGED <<tex, update_pending, render, slot_caps, last_released>>

\* setCaps's critical section: _reset, the new caps, _calculate_par and, when
\* that succeeds, the video info and negotiated.
setCaps_locked ==
    /\ producer.pc = "setCaps_locked"
    /\ LET v_info == GstVideoInfoOf(producer.caps)
           rs     == reset(priv, refs)
           p1     == [rs.priv EXCEPT !.caps = producer.caps]
           par    == calculate_par(p1, v_info)
       IN  /\ refs' = rs.refs
           /\ IF ~par.ok
              THEN /\ priv' = [p1 EXCEPT !.lock = "free"]
                   /\ item' = item
                   /\ producer' = Returned("setCaps", "FALSE")
              ELSE /\ priv' = [p1 EXCEPT !.display_width = par.display_width,
                                         !.display_height = par.display_height,
                                         !.v_info = v_info,
                                         !.negotiated = TRUE,
                                         !.lock = "free"]
                   /\ item' = [item EXCEPT !.implicit = <<v_info.width, v_info.height>>]
                   /\ producer' = Returned("setCaps", "TRUE")
    /\ proxy' = [proxy EXCEPT !.lock = "free"]
    /\ last_delivered' = NoBuffer
    /\ UNCHANGED <<tex, update_pending, render, slot_caps, last_released>>

\* ------------------------------------------------------------------ setSink

setSink_begin(sink) ==
    /\ producer.pc = "idle"
    /\ QMutexLocker
    /\ IF proxy.qt_item = "NULL" THEN ReturnAtOnce("setSink", "void")
       ELSE GoOnTo("setSink", "setSink_lock", NoBuffer, "NULL", sink)

setSink_lock == producer_g_mutex_lock("setSink_lock", "setSink_locked")

setSink_locked ==
    /\ producer.pc = "setSink_locked"
    /\ priv' = [priv EXCEPT !.sink = producer.sink, !.lock = "free"]
    /\ proxy' = [proxy EXCEPT !.lock = "free"]
    /\ producer' = Returned("setSink", "void")
    /\ UNCHANGED <<item, tex, refs, update_pending, render,
                   last_delivered, slot_caps, last_released>>

\* --------------------------------------------------------------- initWinSys

initWinSys_begin ==
    /\ producer.pc = "idle"
    /\ QMutexLocker
    /\ IF proxy.qt_item = "NULL" THEN ReturnAtOnce("initWinSys", "FALSE")
       ELSE GoOnTo("initWinSys", "initWinSys_lock", NoBuffer, "NULL", "NULL")

initWinSys_lock == producer_g_mutex_lock("initWinSys_lock", "initWinSys_locked")

\* initWinSys's critical section.  created is what gst_gl_context_create
\* answers.
initWinSys_locked(created) ==
    /\ producer.pc = "initWinSys_locked"
    /\ IF /\ priv.display # "NULL" /\ priv.qt_context # "NULL"
          /\ priv.other_context # "NULL" /\ priv.context # "NULL"
       THEN /\ priv' = [priv EXCEPT !.lock = "free"]
            /\ producer' = Returned("initWinSys", "TRUE")
       ELSE IF priv.display = "NULL" \/ priv.other_context = "NULL"
       THEN /\ priv' = [priv EXCEPT !.lock = "free"]
            /\ producer' = Returned("initWinSys", "FALSE")
       ELSE /\ priv' = [priv EXCEPT !.context = "gst_gl_context_new", !.lock = "free"]
            /\ producer' = Returned("initWinSys", IF created THEN "TRUE" ELSE "FALSE")
    /\ proxy' = [proxy EXCEPT !.lock = "free"]
    /\ UNCHANGED <<item, tex, refs, update_pending, render,
                   last_delivered, slot_caps, last_released>>

\* ------------------------------------------------ the getters and the setters

getQtContext ==
    /\ producer.pc = "idle"
    /\ QMutexLocker
    /\ IF proxy.qt_item = "NULL" \/ priv.other_context = "NULL"
       THEN ReturnAtOnce("getQtContext", "NULL") ELSE ReturnAtOnce("getQtContext", "ref")

getContext ==
    /\ producer.pc = "idle"
    /\ QMutexLocker
    /\ IF proxy.qt_item = "NULL" \/ priv.context = "NULL"
       THEN ReturnAtOnce("getContext", "NULL") ELSE ReturnAtOnce("getContext", "ref")

getDisplay ==
    /\ producer.pc = "idle"
    /\ QMutexLocker
    /\ IF proxy.qt_item = "NULL" \/ priv.display = "NULL"
       THEN ReturnAtOnce("getDisplay", "NULL") ELSE ReturnAtOnce("getDisplay", "ref")

\* QtGLVideoItemInterface::setDAR, with the QtGLVideoItem::setDAR it calls.
setDAR(num, den) ==
    /\ producer.pc = "idle"
    /\ QMutexLocker
    /\ IF proxy.qt_item = "NULL" THEN ReturnAtOnce("setDAR", "void")
       ELSE /\ priv' = [priv EXCEPT !.par_n = num, !.par_d = den]
            /\ producer' = Returned("setDAR", "void")
            /\ UNCHANGED <<item, proxy, tex, refs, update_pending, render,
                           last_delivered, slot_caps, last_released>>

\* QtGLVideoItemInterface::setForceAspectRatio, with the
\* QtGLVideoItem::setForceAspectRatio it calls.
setForceAspectRatio(force_aspect_ratio) ==
    /\ producer.pc = "idle"
    /\ QMutexLocker
    /\ IF proxy.qt_item = "NULL" THEN ReturnAtOnce("setForceAspectRatio", "void")
       ELSE /\ priv' = [priv EXCEPT !.force_aspect_ratio = force_aspect_ratio]
            /\ producer' = Returned("setForceAspectRatio", "void")
            /\ UNCHANGED <<item, proxy, tex, refs, update_pending, render,
                           last_delivered, slot_caps, last_released>>

\* QtGLVideoItemInterface::getDAR and getForceAspectRatio: reads only.
getDAR ==
    /\ producer.pc = "idle"
    /\ QMutexLocker
    /\ IF proxy.qt_item = "NULL" THEN ReturnAtOnce("getDAR", "void") ELSE ReturnAtOnce("getDAR", "value")

getForceAspectRatio ==
    /\ producer.pc = "idle"
    /\ QMutexLocker
    /\ IF proxy.qt_item = "NULL" THEN ReturnAtOnce("getForceAspectRatio", "FALSE")
       ELSE ReturnAtOnce("getForceAspectRatio", IF priv.force_aspect_ratio THEN "TRUE" ELSE "FALSE")

\* ------------------------------------------------------------ the host side

\* The item exists and the host is not inside one of its callbacks.
HostIdle == render.pc = "idle"

\* The OpenGL context of the item's window, once the scene graph is up.
WindowGLContext == "QOpenGLContext"

\* QtGLVideoItem::handleWindowChanged: a new window has the scene graph
\* callbacks connected; without a window the Qt context is forgotten.
handleWindowChanged(win) ==
    /\ HostIdle
    /\ item' = [item EXCEPT !.window = win]
    /\ priv' = IF win = "NULL" THEN [priv EXCEPT !.qt_context = "NULL"] ELSE priv
    /\ UNCHANGED <<proxy, tex, refs, update_pending, producer, render,
                   last_delivered, slot_caps, last_released>>

\* gst_qt_get_gl_wrapcontext: wraps the current Qt context and creates the
\* GStreamer context sharing with it, or fails and leaves none.
gst_qt_get_gl_wrapcontext(p, wrapped) ==
    IF wrapped
    THEN [p EXCEPT !.other_context = "wrapped", !.context = "context"]
    ELSE [p EXCEPT !.other_context = "NULL", !.context = "NULL"]

\* QtGLVideoItem::onSceneGraphInitialized.  wrapped is what
\* gst_qt_get_gl_wrapcontext answers.
onSceneGraphInitialized(wrapped) ==
    /\ HostIdle
    /\ IF item.window = "NULL" \/ priv.qt_context = WindowGLContext
       THEN UNCHANGED <<priv, item>>
       ELSE /\ priv' = gst_qt_get_gl_wrapcontext(
                           [priv EXCEPT !.qt_context = WindowGLContext], wrapped)
            /\ item' = [item EXCEPT !.m_openGlContextInitialized = wrapped]
    /\ UNCHANGED <<proxy, tex, refs, update_pending, producer, render,
                   last_delivered, slot_caps, last_released>>

\* GstQSGTexture::bind, called by the host when it renders the paint node:
\* a texture that holds a buffer is bound from then on.
GstQSGTexture_bind ==
    /\ HostIdle
    /\ tex.node
    /\ tex.buffer # NoBuffer
    /\ ~tex.was_bound
    /\ tex' = [tex EXCEPT !.was_bound = TRUE]
    /\ UNCHANGED <<priv, item, proxy, refs, update_pending, producer, render,
                   last_delivered, slot_caps, last_released>>

\* ---------------------------------------------------------- updatePaintNode

\* updatePaintNode up to g_mutex_lock as it would be without the test of
\* m_openGlContextInitialized.
updatePaintNode_begin_unchecked ==
    /\ HostIdle
    /\ update_pending' = FALSE
    /\ render' = [pc |-> "updatePaintNode_lock", ret |-> "none"]
    /\ UNCHANGED <<priv, item, proxy, tex, refs, producer,
                   last_delivered, slot_caps, last_released>>

\* updatePaintNode up to g_mutex_lock: without an initialized OpenGL context
\* the old node is returned as it is.
updatePaintNode_begin ==
    /\ HostIdle
    /\ update_pending' = FALSE
    /\ IF ~item.m_openGlContextInitialized
       THEN render' = [pc |-> "idle", ret |-> "oldNode"]
       ELSE render' = [pc |-> "updatePaintNode_lock", ret |-> "none"]
    /\ UNCHANGED <<priv, item, proxy, tex, refs, producer,
                   last_delivered, slot_caps, last_released>>

\* g_mutex_lock of the render thread as it would be if it did not wait.
updatePaintNode_lock_no_wait ==
    /\ render.pc = "updatePaintNode_lock"
    /\ priv' = [priv EXCEPT !.lock = "render"]
    /\ render' = [render EXCEPT !.pc = "updatePaintNode_locked"]
    /\ UNCHANGED <<item, proxy, tex, refs, update_pending, producer,
                   last_delivered, slot_caps, last_released>>

\* g_mutex_lock (&this->priv->lock) by the render thread.
updatePaintNode_lock ==
    /\ render.pc = "updatePaintNode_lock"
    /\ priv.lock = "free"
    /\ priv' = [priv EXCEPT !.lock = "render"]
    /\ render' = [render EXCEPT !.pc = "updatePaintNode_locked"]
    /\ UNCHANGED <<item, proxy, tex, refs, update_pending, producer,
                   last_delivered, slot_caps, last_released>>

\* exchange_old_buffer as it would be with a lag of one generation only: a
\* rotating exchange lets go what was in bound_buffers as well.
exchange_old_buffer_one_generation(p, r, old_buffer, was_bound) ==
    LET r1 == gst_buffer_ref(r, old_buffer)
    IN  IF old_buffer = NoBuffer
        THEN [priv |-> p, refs |-> r, released |-> <<>>]
        ELSE IF old_buffer = p.buffer \/ ~was_bound
        THEN [priv |-> p, refs |-> gst_buffer_unref(r1, old_buffer), released |-> <<>>]
        ELSE [priv |-> [p EXCEPT !.potentially_unbound_buffers = <<>>,
                                 !.bound_buffers = <<old_buffer>>],
              refs |-> UnrefQueue(UnrefQueue(r1, p.potentially_unbound_buffers),
                                  p.bound_buffers),
              released |-> p.potentially_unbound_buffers \o p.bound_buffers]

\* exchange_old_buffer as it would be without the loop that unrefs the
\* potentially unbound buffers: they stay queued in front of the moved ones.
exchange_old_buffer_no_drain(p, r, old_buffer, was_bound) ==
    LET r1 == gst_buffer_ref(r, old_buffer)
    IN  IF old_buffer = NoBuffer
        THEN [priv |-> p, refs |-> r, released |-> <<>>]
        ELSE IF old_buffer = p.buffer \/ ~was_bound
        THEN [priv |-> p, refs |-> gst_buffer_unref(r1, old_buffer), released |-> <<>>]
        ELSE [priv |-> [p EXCEPT
                          !.potentially_unbound_buffers =
                              p.potentially_unbound_buffers \o p.bound_buffers,
                          !.bound_buffers = <<old_buffer>>],
              refs |-> r1,
              released |-> <<>>]

\* exchange_old_buffer as it would be without the test for the slot's
\* buffer: a bound buffer is queued even when it stays on the texture.
exchange_old_buffer_no_same_test(p, r, old_buffer, was_bound) ==
    LET r1 == gst_buffer_ref(r, old_buffer)
    IN  IF old_buffer = NoBuffer
        THEN [priv |-> p, refs |-> r, released |-> <<>>]
        ELSE IF ~was_bound
        THEN [priv |-> p, refs |-> gst_buffer_unref(r1, old_buffer), released |-> <<>>]
        ELSE [priv |-> [p EXCEPT
                          !.potentially_unbound_buffers = p.bound_buffers,
                          !.bound_buffers = <<old_buffer>>],
              refs |-> UnrefQueue(r1, p.potentially_unbound_buffers),
              released |-> p.potentially_unbound_buffers]

\* exchange_old_buffer as it would be without the test of was_bound: every
\* superseded buffer is queued.
exchange_old_buffer_queues_unbound(p, r, old_buffer, was_bound) ==
    LET r1 == gst_buffer_ref(r, old_buffer)
    IN  IF old_buffer = NoBuffer
        THEN [priv |-> p, refs |-> r, released |-> <<>>]
        ELSE IF old_buffer = p.buffer
        THEN [priv |-> p, refs |-> gst_buffer_unref(r1, old_buffer), released |-> <<>>]
        ELSE [priv |-> [p EXCEPT
                          !.potentially_unbound_buffers = p.bound_buffers,
                          !.bound_buffers = <<old_buffer>>],
              refs |-> UnrefQueue(r1, p.potentially_unbound_buffers),
              released |-> p.potentially_unbound_buffers]

\* exchange_old_buffer as it would be if a superseded bound buffer were
\* appended to bound_buffers without the rotation.
exchange_old_buffer_appends(p, r, old_buffer, was_bound) ==
    LET r1 == gst_buffer_ref(r, old_buffer)
    IN  IF old_buffer = NoBuffer
        THEN [priv |-> p, refs |-> r, released |-> <<>>]
        ELSE IF old_buffer = p.buffer \/ ~was_bound
        THEN [priv |-> p, refs |-> gst_buffer_unref(r1, old_buffer), released |-> <<>>]
        ELSE [priv |-> [p EXCEPT !.bound_buffers = p.bound_buffers \o <<old_buffer>>],
              refs |-> r1,
              released |-> <<>>]

\* The buffer the texture held before this paint (old_buffer, with the
\* reference getBuffer adds, and was_bound): unreffed when it is the slot's
\* buffer or was never bound, else queued in bound_buffers after the
\* potentially unbound buffers were unreffed and the bound ones moved there.
\* Gives the new priv, the new refs and the buffers let go.
exchange_old_buffer(p, r, old_buffer, was_bound) ==
    LET r1 == gst_buffer_ref(r, old_buffer)
    IN  IF old_buffer = NoBuffer
        THEN [priv |-> p, refs |-> r, released |-> <<>>]
        ELSE IF old_buffer = p.buffer
        THEN [priv |-> p, refs |-> gst_buffer_unref(r1, old_buffer), released |-> <<>>]
        ELSE IF ~was_bound
        THEN [priv |-> p, refs |-> gst_buffer_unref(r1, old_buffer), released |-> <<>>]
        ELSE [priv |-> [p EXCEPT
                          !.potentially_unbound_buffers = p.bound_buffers,
                          !.bound_buffers = <<old_buffer>>],
              refs |-> UnrefQueue(r1, p.potentially_unbound_buffers),
              released |-> p.potentially_unbound_buffers]

\* The rectangle the node is given: the display size centred in the bounding
\* rectangle, or the bounding rectangle filled.
NodeRect(p) ==
    IF p.force_aspect_ratio
    THEN <<"centered", p.display_width, p.display_height>>
    ELSE <<"fill">>

\* updatePaintNode's critical section as it would be if it handed the
\* slot's buffer over to the texture.
updatePaintNode_locked_takes_slot ==
    /\ render.pc = "updatePaintNode_locked"
    /\ IF priv.caps = "NULL"
       THEN /\ priv' = [priv EXCEPT !.lock = "free"]
            /\ tex' = NoTexture
            /\ render' = [pc |-> "idle", ret |-> "NULL"]
            /\ UNCHANGED <<refs, last_released>>
       ELSE LET texNode == IF tex.node THEN tex ELSE NewTexture
                x == exchange_old_buffer(priv, refs, texNode.buffer, texNode.was_bound)
            IN  /\ priv' = [x.priv EXCEPT !.lock = "free", !.buffer = NoBuffer]
                /\ refs' = gst_buffer_unref(
                               gst_buffer_replace(x.refs, texNode.buffer, priv.buffer),
                               priv.buffer)
                /\ tex' = [GstQSGTexture_setBuffer(
                               GstQSGTexture_setCaps(texNode, priv.caps), priv.buffer)
                             EXCEPT !.rect = NodeRect(priv)]
                /\ last_released' = x.released
                /\ render' = [pc |-> "idle", ret |-> "texNode"]
    /\ UNCHANGED <<item, proxy, update_pending, producer, last_delivered, slot_caps>>

\* updatePaintNode's critical section: NULL when there are no caps; else the
\* old buffer is exchanged, the caps and the slot's buffer are set on the
\* texture, the rectangle is set and the node is returned.
updatePaintNode_locked ==
    /\ render.pc = "updatePaintNode_locked"
    /\ IF priv.caps = "NULL"
       THEN /\ priv' = [priv EXCEPT !.lock = "free"]
            /\ tex' = NoTexture
            /\ render' = [pc |-> "idle", ret |-> "NULL"]
            /\ UNCHANGED <<refs, last_released>>
       ELSE LET texNode == IF tex.node THEN tex ELSE NewTexture
                x == exchange_old_buffer(priv, refs, texNode.buffer, texNode.was_bound)
            IN  /\ priv' = [x.priv EXCEPT !.lock = "free"]
                /\ refs' = gst_buffer_replace(x.refs, texNode.buffer, priv.buffer)
                /\ tex' = [GstQSGTexture_setBuffer(
                               GstQSGTexture_setCaps(texNode, priv.caps), priv.buffer)
                             EXCEPT !.rect = NodeRect(priv)]
                /\ last_released' = x.released
                /\ render' = [pc |-> "idle", ret |-> "texNode"]
    /\ UNCHANGED <<item, proxy, update_pending, producer, last_delivered, slot_caps>>

\* --------------------------------------------------------------- destructor

\* invalidateRef as it would be without the QMutexLocker.
invalidateRef_unlocked ==
    proxy' = [proxy EXCEPT !.qt_item = "NULL"]

\* QtGLVideoItemInterface::invalidateRef: under the proxy's lock, the
\* pointer to the item is cleared.
invalidateRef ==
    /\ proxy.lock = "free"
    /\ proxy' = [proxy EXCEPT !.qt_item = "NULL"]

\* ~QtGLVideoItem up to the return of invalidateRef.
destructor_invalidateRef ==
    /\ HostIdle
    /\ invalidateRef
    /\ render' = [pc |-> "destructor", ret |-> "none"]
    /\ UNCHANGED <<priv, item, tex, refs, update_pending, producer,
                   last_delivered, slot_caps, last_released>>

\* The rest of ~QtGLVideoItem as it would be without the loop over
\* bound_buffers.
destructor_free_keeps_bound ==
    /\ render.pc = "destructor"
    /\ refs' = gst_buffer_replace(
                   UnrefQueue(refs, priv.potentially_unbound_buffers),
                   priv.buffer, NoBuffer)
    /\ priv' = [priv EXCEPT !.lock = "cleared",
                            !.context = "NULL", !.other_context = "NULL",
                            !.display = "NULL",
                            !.potentially_unbound_buffers = <<>>,
                            !.buffer = NoBuffer,
                            !.caps = "NULL",
                            !.sink = "NULL"]
    /\ render' = [pc |-> "destroyed", ret |-> "none"]
    /\ UNCHANGED <<item, proxy, tex, update_pending, producer,
                   last_delivered, slot_caps, last_released>>

\* The rest of ~QtGLVideoItem: the mutex is cleared, the contexts and the
\* display unreffed, both queues drained, the slot and the caps cleared and
\* priv freed.
destructor_free ==
    /\ render.pc = "destructor"
    /\ refs' = gst_buffer_replace(
                   UnrefQueue(UnrefQueue(refs, priv.potentially_unbound_buffers),
                              priv.bound_buffers),
                   priv.buffer, NoBuffer)
    /\ priv' = [priv EXCEPT !.lock = "cleared",
                            !.context = "NULL", !.other_context = "NULL",
                            !.display = "NULL",
                            !.potentially_unbound_buffers = <<>>,
                            !.bound_buffers = <<>>,
                            !.buffer = NoBuffer,
                            !.caps = "NULL",
                            !.sink = "NULL"]
    /\ render' = [pc |-> "destroyed", ret |-> "none"]
    /\ UNCHANGED <<item, proxy, tex, update_pending, producer,
                   last_delivered, slot_caps, last_released>>

\* ----------------------------------------------------- the specifications

\* The frame hand-off: the producer negotiates and delivers any of the
\* buffers in any order; the host gives the item a window, initializes the
\* scene graph, paints, binds and destroys the item.
Next ==
    \/ \E buffer \in Frames : setBuffer_begin(buffer)
    \/ setBuffer_lock
    \/ setBuffer_locked
    \/ \E caps \in OfferedCaps : setCaps_begin(caps)
    \/ setCaps_lock
    \/ setCaps_locked
    \/ handleWindowChanged("window")
    \/ \E wrapped \in BOOLEAN : onSceneGraphInitialized(wrapped)
    \/ GstQSGTexture_bind
    \/ updatePaintNode_begin
    \/ updatePaintNode_lock
    \/ updatePaintNode_locked
    \/ destructor_invalidateRef
    \/ destructor_free

Spec == Init /\ [][Next]_vars

\* The scheduling the liveness of a paint rests on: the host calls
\* updatePaintNode for a queued "update"; g_mutex_lock of the render thread
\* succeeds when the mutex is free again and again; a thread inside a
\* critical section runs to its unlock.
Fairness ==
    /\ WF_vars(update_pending /\ updatePaintNode_begin)
    /\ SF_vars(updatePaintNode_lock)
    /\ WF_vars(updatePaintNode_locked)
    /\ WF_vars(setBuffer_locked)
    /\ WF_vars(setCaps_locked)

\* The frame hand-off with two buffers, for the liveness of a paint.
LiveFrames == {1, 2}

NextLive ==
    \/ \E buffer \in LiveFrames : setBuffer_begin(buffer)
    \/ setBuffer_lock
    \/ setBuffer_locked
    \/ \E caps \in OfferedCaps : setCaps_begin(caps)
    \/ setCaps_lock
    \/ setCaps_locked
    \/ handleWindowChanged("window")
    \/ \E wrapped \in BOOLEAN : onSceneGraphInitialized(wrapped)
    \/ GstQSGTexture_bind
    \/ updatePaintNode_begin
    \/ updatePaintNode_lock
    \/ updatePaintNode_locked
    \/ destructor_invalidateRef
    \/ destructor_free

SpecLive == Init /\ [][NextLive]_vars /\ Fairness

\* The scheduling the return of every call rests on: a thread blocked in
\* g_mutex_lock gets the mutex when it is free again and again, and a thread
\* inside a critical section runs to its unlock.
FairnessLocks ==
    /\ SF_vars(setBuffer_lock)
    /\ SF_vars(setCaps_lock)
    /\ SF_vars(initWinSys_lock)
    /\ SF_vars(updatePaintNode_lock)
    /\ WF_vars(setBuffer_locked)
    /\ WF_vars(setCaps_locked)
    /\ WF_vars(\E created \in BOOLEAN : initWinSys_locked(created))
    /\ WF_vars(updatePaintNode_locked)
    /\ WF_vars(destructor_free)

\* The calls that take both locks or have an early return under a lock:
\* setBuffer, setCaps and initWinSys, the paint, and the destructor with its
\* invalidateRef; one buffer, a good, a degenerate and an unreadable format.
NextLocks ==
    \/ setBuffer_begin(1)
    \/ setBuffer_lock
    \/ setBuffer_locked
    \/ \E caps \in {CapsA, CapsDegenerate, CapsNotVideo} : setCaps_begin(caps)
    \/ setCaps_lock
    \/ setCaps_locked
    \/ initWinSys_begin
    \/ initWinSys_lock
    \/ \E created \in BOOLEAN : initWinSys_locked(created)
    \/ \E win \in {"NULL", "window"} : handleWindowChanged(win)
    \/ \E wrapped \in BOOLEAN : onSceneGraphInitialized(wrapped)
    \/ updatePaintNode_begin
    \/ updatePaintNode_lock
    \/ updatePaintNode_locked
    \/ destructor_invalidateRef
    \/ destructor_free

SpecLocks == Init /\ [][NextLocks]_vars /\ FairnessLocks

\* Every entry point of the proxy and every callback of the host, with one
\* buffer, one good and one degenerate format, one sink and one change of each
\* aspect ratio property.
NextEntryPoints ==
    \/ setBuffer_begin(1)
    \/ setBuffer_lock
    \/ setBuffer_locked
    \/ \E caps \in {CapsA, CapsDegenerate} : setCaps_begin(caps)
    \/ setCaps_lock
    \/ setCaps_locked
    \/ setSink_begin("sink")
    \/ setSink_lock
    \/ setSink_locked
    \/ initWinSys_begin
    \/ initWinSys_lock
    \/ \E created \in BOOLEAN : initWinSys_locked(created)
    \/ getQtContext
    \/ getContext
    \/ getDisplay
    \/ setDAR(1, 2)
    \/ setForceAspectRatio(FALSE)
    \/ getDAR
    \/ getForceAspectRatio
    \/ \E win \in {"NULL", "window"} : handleWindowChanged(win)
    \/ \E wrapped \in BOOLEAN : onSceneGraphInitialized(wrapped)
    \/ GstQSGTexture_bind
    \/ updatePaintNode_begin
    \/ updatePaintNode_lock
    \/ updatePaintNode_locked
    \/ destructor_invalidateRef
    \/ destructor_free

SpecEntryPoints == Init /\ [][NextEntryPoints]_vars

\* =================================================================== claims

\* How often buffer f occurs in queue q.
Count(q, f) == Cardinality({i \in DOMAIN q : q[i] = f})

\* The references the pointers of a state account for: the slot, the
\* texture and every entry of the two queues hold one each.
Held(p, t, f) ==
    (IF p.buffer = f THEN 1 ELSE 0) + (IF t.buffer = f THEN 1 ELSE 0)
      + Count(p.bound_buffers, f) + Count(p.potentially_unbound_buffers, f)

\* The step is the critical section of a paint.
PaintStep == render.pc = "updatePaintNode_locked" /\ render'.pc = "idle"

\* The step is a paint whose texture holds a buffer that was bound and is
\* not the slot's buffer: the exchange that rotates the queues.
RotatingPaintStep ==
    /\ PaintStep
    /\ priv.caps # "NULL"
    /\ tex.buffer # NoBuffer
    /\ tex.buffer # priv.buffer
    /\ tex.was_bound

\* The step is the critical section of setCaps (with its _reset), or the
\* draining part of the destructor.
ResetStep == producer.pc = "setCaps_locked" /\ producer'.pc = "idle"

DestructorStep == render.pc = "destructor" /\ render'.pc = "destroyed"

\* The step is the critical section of an accepted setBuffer.
SetBufferStep == producer.pc = "setBuffer_locked" /\ producer'.pc = "idle"

\* C1: two-generation lag.  The queues change only in a paint, a reset or
\* the destructor.  A paint changes them only when it rotates: the outgoing
\* bound buffer, superseded by another one, becomes the one entry of
\* bound_buffers, what was in bound_buffers moves to
\* potentially_unbound_buffers (retained through this exchange), and what was
\* in potentially_unbound_buffers is let go; every other paint leaves both
\* queues as they are.  After a paint every pointer is backed by a
\* reference, and a buffer that left the queues has lost the queue's.
C1_TwoGenerationLag ==
    [][ /\ (priv'.bound_buffers # priv.bound_buffers
              \/ priv'.potentially_unbound_buffers # priv.potentially_unbound_buffers)
           => (PaintStep \/ ResetStep \/ DestructorStep)
        /\ RotatingPaintStep
           => /\ priv'.bound_buffers = <<tex.buffer>>
              /\ priv'.potentially_unbound_buffers = priv.bound_buffers
              /\ last_released' = priv.potentially_unbound_buffers
        /\ (PaintStep /\ ~RotatingPaintStep)
           => /\ priv'.bound_buffers = priv.bound_buffers
              /\ priv'.potentially_unbound_buffers = priv.potentially_unbound_buffers
        /\ PaintStep => \A f \in Frames : refs'[f] = Held(priv', tex', f)
      ]_vars

\* C1's case: a paint has just let go a buffer that had been in
\* potentially_unbound_buffers, while both queues hold its successors.
C1_Witness ==
    /\ render.pc = "idle" /\ render.ret = "texNode"
    /\ last_released # <<>>
    /\ priv.bound_buffers # <<>>
    /\ priv.potentially_unbound_buffers # <<>>
    /\ \A i \in DOMAIN last_released : refs[last_released[i]] = Held(priv, tex, last_released[i])

\* The state in front of the critical section of the third of three paints
\* that started from empty queues and an empty texture: f1 was attached,
\* bound and superseded by f2 (so it is in bound_buffers), f2 is attached and
\* bound, and f3 is in the slot.
ThirdPaint(f1, f2, f3) ==
    /\ f1 # f2 /\ f2 # f3 /\ f1 # f3
    /\ render.pc = "updatePaintNode_locked"
    /\ priv.caps # "NULL"
    /\ priv.potentially_unbound_buffers = <<>>
    /\ priv.bound_buffers = <<f1>>
    /\ tex.buffer = f2 /\ tex.was_bound
    /\ priv.buffer = f3

\* C2 as stated: after the third paint F1 has been released, F2 is in
\* potentially_unbound_buffers and F3 is the texture's buffer.
C2_Original ==
    [][ \A f1, f2, f3 \in Frames :
          (ThirdPaint(f1, f2, f3) /\ PaintStep)
          => /\ refs'[f1] = 0
             /\ priv'.potentially_unbound_buffers = <<f2>>
             /\ tex'.buffer = f3
      ]_vars

\* The state in front of the critical section of a fourth paint that follows
\* those three: f3 is attached and bound, and the slot holds another buffer.
FourthPaint(f1, f2, f3) ==
    /\ f1 # f2 /\ f2 # f3 /\ f1 # f3
    /\ render.pc = "updatePaintNode_locked"
    /\ priv.caps # "NULL"
    /\ priv.potentially_unbound_buffers = <<f1>>
    /\ priv.bound_buffers = <<f2>>
    /\ tex.buffer = f3 /\ tex.was_bound
    /\ priv.buffer # f3

\* C2 amended: after the third paint F1 is still retained, now in
\* potentially_unbound_buffers, F2 is in bound_buffers and F3 is the
\* texture's buffer; nothing was let go.  The fourth paint, when it
\* supersedes a bound F3, lets F1 go.
C2_ThreePaints ==
    [][ \A f1, f2, f3 \in Frames :
          /\ (ThirdPaint(f1, f2, f3) /\ PaintStep)
             => /\ priv'.potentially_unbound_buffers = <<f1>>
                /\ priv'.bound_buffers = <<f2>>
                /\ tex'.buffer = f3
                /\ refs'[f1] = 1 /\ refs'[f2] = 1 /\ refs'[f3] = 2
                /\ last_released' = <<>>
          /\ (FourthPaint(f1, f2, f3) /\ PaintStep)
             => /\ last_released' = <<f1>>
                /\ priv'.potentially_unbound_buffers = <<f2>>
                /\ priv'.bound_buffers = <<f3>>
                /\ refs'[f1] = Held(priv', tex', f1)
                /\ Count(priv'.bound_buffers, f1) = 0
                /\ Count(priv'.potentially_unbound_buffers, f1) = 0
      ]_vars

\* C2's case: the third paint has returned.
C2_Witness ==
    \E f1, f2, f3 \in Frames :
        /\ f1 # f2 /\ f2 # f3 /\ f1 # f3
        /\ render.pc = "idle" /\ render.ret = "texNode"
        /\ priv.potentially_unbound_buffers = <<f1>>
        /\ priv.bound_buffers = <<f2>>
        /\ tex.buffer = f3 /\ ~tex.was_bound
        /\ priv.buffer = f3
        /\ last_released = <<>>

\* C3: latest frame wins.  As long as priv is not freed the slot holds the
\* buffer of the last accepted setBuffer since the last reset; an accepted setBuffer leaves its
\* buffer in the slot, takes one reference on it and drops the slot's one
\* reference on the buffer it replaces (nothing when it is the same
\* buffer); every paint that attaches sets the texture's buffer to the last
\* delivered one.
C3_LatestFrameWins ==
    [][ /\ render.pc # "destroyed" => priv.buffer = last_delivered
        /\ render'.pc # "destroyed" => priv'.buffer = last_delivered'
        /\ SetBufferStep
           => /\ priv'.buffer = producer.buffer
              /\ \A f \in Frames :
                   refs'[f] = refs[f]
                     + (IF f = producer.buffer /\ f # priv.buffer THEN 1 ELSE 0)
                     - (IF f = priv.buffer /\ f # producer.buffer THEN 1 ELSE 0)
        /\ (PaintStep /\ priv.caps # "NULL") => tex'.buffer = last_delivered
      ]_vars

\* C3's case: a buffer was delivered, painted and then replaced in the slot
\* by a later delivery.
C3_Witness ==
    /\ producer.pc = "idle" /\ producer.op = "setBuffer"
    /\ tex.buffer # NoBuffer
    /\ priv.buffer # NoBuffer
    /\ priv.buffer # tex.buffer
    /\ priv.buffer = last_delivered
    /\ refs[tex.buffer] = 1

\* The step is a call of proxy method op by the producer (a call that goes
\* on to priv->lock, or one that returns at once with a new result).
ProducerCall(op) ==
    producer.pc = "idle" /\ producer' # producer /\ producer'.op = op

\* The step is a call of updatePaintNode by the host.
PaintCall ==
    render.pc = "idle" /\ render' # render /\ render'.pc # "destructor"

\* C4 as stated: a setCaps that fails in _calculate_par leaves the caps, the
\* negotiated flag, the slot and both queues as they were.
C4_Original ==
    [][ (ResetStep /\ producer'.ret = "FALSE")
        => /\ priv'.caps = priv.caps
           /\ priv'.negotiated = priv.negotiated
           /\ priv'.buffer = priv.buffer
           /\ priv'.bound_buffers = priv.bound_buffers
           /\ priv'.potentially_unbound_buffers = priv.potentially_unbound_buffers
      ]_vars

\* C5: renegotiation ordering.  The critical section of setCaps leaves the
\* slot and both queues empty together with the new caps; as long as priv is
\* not freed a buffer in the slot was delivered under the caps in force; and
\* a paint that attaches a buffer attaches it with the caps it was delivered
\* under.
C5_RenegotiationOrdering ==
    [][ /\ ResetStep
           => /\ priv'.buffer = NoBuffer
              /\ priv'.bound_buffers = <<>>
              /\ priv'.potentially_unbound_buffers = <<>>
              /\ priv'.caps = producer.caps
        /\ (render'.pc # "destroyed" /\ priv'.buffer # NoBuffer)
           => slot_caps' = priv'.caps
        /\ (PaintStep /\ tex'.buffer # NoBuffer) => tex'.caps = slot_caps
      ]_vars

\* C5's case: the texture still holds a buffer of the old format, the new
\* format is negotiated, a buffer was delivered under it, and a paint holds
\* the lock.
C5_Witness ==
    /\ render.pc = "updatePaintNode_locked"
    /\ tex.buffer # NoBuffer
    /\ tex.caps # "NULL"
    /\ tex.caps # priv.caps
    /\ priv.negotiated
    /\ priv.buffer # NoBuffer
    /\ slot_caps = priv.caps

\* C6: a setBuffer on an item that is attached but not negotiated returns at
\* once and changes neither priv (the slot stays empty) nor a reference
\* count nor the pending update; an item that is not negotiated has an empty
\* slot.
C6_UnnegotiatedDrop ==
    [][ /\ (render'.pc # "destroyed" /\ ~priv'.negotiated) => priv'.buffer = NoBuffer
        /\ (ProducerCall("setBuffer") /\ proxy.qt_item # "NULL" /\ ~priv.negotiated)
           => /\ producer'.pc = "idle"
              /\ producer'.ret = "void"
              /\ priv' = priv
              /\ priv.buffer = NoBuffer
              /\ refs' = refs
              /\ update_pending' = update_pending
              /\ last_delivered' = last_delivered
      ]_vars

\* C6's case: a setBuffer has returned on an attached item whose last
\* setCaps failed after its reset.
C6_Witness ==
    /\ producer.pc = "idle" /\ producer.op = "setBuffer" /\ producer.ret = "void"
    /\ proxy.qt_item # "NULL"
    /\ ~priv.negotiated
    /\ priv.caps = CapsDegenerate
    /\ priv.buffer = NoBuffer
    /\ tex.buffer # NoBuffer

\* C7: once qt_item is NULL every call of the producer returns at once,
\* changes nothing but its own return value, and returns FALSE (setCaps,
\* initWinSys, getForceAspectRatio), NULL (the three getters) or nothing.
C7_DetachedNoOp ==
    [][ (proxy.qt_item = "NULL" /\ producer' # producer)
        => /\ producer'.pc = "idle"
           /\ UNCHANGED <<priv, item, proxy, tex, refs, update_pending, render,
                          last_delivered, slot_caps, last_released>>
           /\ producer'.op \in {"setCaps", "initWinSys", "getForceAspectRatio"}
              => producer'.ret = "FALSE"
           /\ producer'.op \in {"getQtContext", "getContext", "getDisplay"}
              => producer'.ret = "NULL"
           /\ producer'.op \in {"setBuffer", "setSink", "setDAR", "setForceAspectRatio", "getDAR"}
              => producer'.ret = "void"
      ]_vars

\* C7's case: invalidateRef has returned, the destructor has not gone on
\* yet, and getDisplay has answered NULL although priv->display is set.
C7_Witness ==
    /\ proxy.qt_item = "NULL"
    /\ render.pc = "destructor"
    /\ priv.display # "NULL"
    /\ priv.buffer # NoBuffer
    /\ producer.pc = "idle" /\ producer.op = "getDisplay" /\ producer.ret = "NULL"

\* C8: the teardown race is closed.  From the return of invalidateRef on
\* the pointer is NULL, no call of the producer is in progress (none holds
\* the proxy's lock or priv->lock), and the mutex is cleared and priv freed
\* only in that situation.
C8_TeardownRaceClosed ==
    /\ render.pc \in {"destructor", "destroyed"} <=> proxy.qt_item = "NULL"
    /\ proxy.qt_item = "NULL"
       => /\ producer.pc = "idle"
          /\ proxy.lock = "free"
          /\ priv.lock # "producer"
    /\ priv.lock = "cleared" <=> render.pc = "destroyed"

\* C8's case: priv is freed, and a call made after that has found the
\* pointer NULL.
C8_Witness ==
    /\ render.pc = "destroyed"
    /\ priv.lock = "cleared"
    /\ producer.pc = "idle" /\ producer.op = "setBuffer" /\ producer.ret = "void"
    /\ priv.negotiated
    /\ last_delivered = NoBuffer

\* C9: a call of updatePaintNode without an initialized OpenGL context
\* returns the old node and leaves priv, the texture and the reference
\* counts as they are; with an initialized context it goes on to the lock,
\* and its critical section runs only with an initialized context.
C9_UninitializedPaint ==
    [][ /\ (PaintCall /\ ~item.m_openGlContextInitialized)
           => /\ render'.pc = "idle"
              /\ render'.ret = "oldNode"
              /\ priv' = priv
              /\ tex' = tex
              /\ refs' = refs
        /\ (PaintCall /\ item.m_openGlContextInitialized)
           => render'.pc = "updatePaintNode_lock"
        /\ PaintStep
           => /\ item.m_openGlContextInitialized
              /\ render'.ret \in {"NULL", "texNode"}
      ]_vars

\* C9's case: a paint has returned the old node, whose texture holds a
\* buffer from the time the context was initialized.
C9_Witness ==
    /\ render.pc = "idle" /\ render.ret = "oldNode"
    /\ ~item.m_openGlContextInitialized
    /\ tex.buffer # NoBuffer
    /\ priv.buffer # NoBuffer

\* C10 as stated: a paint of an item that is not negotiated returns NULL,
\* sets neither a buffer nor caps on the texture and leaves both queues as
\* they are.
C10_Original ==
    [][ (PaintStep /\ ~priv.negotiated)
        => /\ render'.ret = "NULL"
           /\ tex'.buffer = tex.buffer
           /\ tex'.caps = tex.caps
           /\ priv'.bound_buffers = priv.bound_buffers
           /\ priv'.potentially_unbound_buffers = priv.potentially_unbound_buffers
      ]_vars

\* The step is a paint that finds the slot's buffer already on the texture.
SameFramePaintStep ==
    /\ PaintStep
    /\ priv.caps # "NULL"
    /\ tex.buffer # NoBuffer
    /\ tex.buffer = priv.buffer

\* C11: a paint that finds the slot's buffer already on the texture leaves
\* both queues, every reference count and the texture's buffer and bound
\* mark as they are, whether the buffer was bound or not.
C11_SameFrameExchange ==
    [][ SameFramePaintStep
        => /\ priv'.bound_buffers = priv.bound_buffers
           /\ priv'.potentially_unbound_buffers = priv.potentially_unbound_buffers
           /\ refs' = refs
           /\ tex'.buffer = tex.buffer
           /\ tex'.was_bound = tex.was_bound
           /\ last_released' = <<>>
      ]_vars

\* C11's case: a paint holds the lock, the texture's buffer is the slot's,
\* it was bound, and both queues hold a buffer that a rotation would move.
C11_Witness ==
    /\ render.pc = "updatePaintNode_locked"
    /\ tex.buffer # NoBuffer
    /\ tex.buffer = priv.buffer
    /\ tex.was_bound
    /\ priv.bound_buffers # <<>>
    /\ priv.potentially_unbound_buffers # <<>>

\* The step is a paint whose texture holds a buffer that is not the slot's
\* and was never bound.
NeverBoundPaintStep ==
    /\ PaintStep
    /\ priv.caps # "NULL"
    /\ tex.buffer # NoBuffer
    /\ tex.buffer # priv.buffer
    /\ ~tex.was_bound

\* C12: a paint whose outgoing buffer is not the slot's and was never bound
\* lets it go at once (the item side holds one reference less on it) and
\* leaves both queues as they are; a buffer enters bound_buffers only in a
\* paint that finds it bound on the texture, and enters
\* potentially_unbound_buffers only from bound_buffers.
C12_NeverBoundExchange ==
    [][ /\ NeverBoundPaintStep
           => /\ priv'.bound_buffers = priv.bound_buffers
              /\ priv'.potentially_unbound_buffers = priv.potentially_unbound_buffers
              /\ refs'[tex.buffer] = refs[tex.buffer] - 1
              /\ last_released' = <<>>
        /\ \A f \in Frames :
              /\ Count(priv'.bound_buffers, f) > Count(priv.bound_buffers, f)
                 => PaintStep /\ tex.buffer = f /\ tex.was_bound /\ priv.buffer # f
              /\ Count(priv'.potentially_unbound_buffers, f)
                   > Count(priv.potentially_unbound_buffers, f)
                 => PaintStep /\ Count(priv.bound_buffers, f) > 0
      ]_vars

\* C12's case: a paint holds the lock, the texture's buffer was superseded
\* in the slot before it was ever bound, and the queues are not empty.
C12_Witness ==
    /\ render.pc = "updatePaintNode_locked"
    /\ tex.buffer # NoBuffer
    /\ priv.buffer # NoBuffer
    /\ tex.buffer # priv.buffer
    /\ ~tex.was_bound
    /\ priv.bound_buffers # <<>>
    /\ refs[tex.buffer] = 1

\* The item is being or has been destroyed.
Dead == render.pc \in {"destructor", "destroyed"}

\* The last paint attached the buffer of the last accepted setBuffer, with
\* the caps in force.
Attached ==
    /\ render.pc = "idle"
    /\ render.ret = "texNode"
    /\ tex.buffer = last_delivered
    /\ tex.caps = priv.caps

C14_ReferenceSafety ==
    /\ \A f \in Frames :
          /\ refs[f] >= 0
          /\ refs[f] = Held(priv, tex, f)
    /\ priv.lock = "producer" <=> producer.pc \in {"setBuffer_locked", "setCaps_locked"}
    /\ priv.lock = "render" <=> render.pc = "updatePaintNode_locked"

\* C14's case: a paint was called and waits for the mutex while a setCaps
\* has reset the item: the queues it drained held buffers, the slot is
\* empty, and the texture still holds its buffer with its one reference.
C14_Witness ==
    /\ render.pc = "updatePaintNode_lock"
    /\ producer.pc = "idle" /\ producer.op = "setCaps" /\ producer.ret = "TRUE"
    /\ priv.buffer = NoBuffer
    /\ priv.bound_buffers = <<>>
    /\ last_released # <<>>
    /\ tex.buffer # NoBuffer
    /\ tex.was_bound
    /\ refs[tex.buffer] = 1

\* The state the mutex is said to guard: the slot, the format state, the
\* queues, the initialized flag and the aspect ratio configuration.
GuardedState ==
    <<priv.buffer, priv.caps, priv.negotiated, priv.v_info,
      priv.display_width, priv.display_height,
      priv.bound_buffers, priv.potentially_unbound_buffers,
      item.m_openGlContextInitialized,
      priv.par_n, priv.par_d, priv.force_aspect_ratio>>

\* C15 as stated, for the writes: while the item lives the guarded state
\* changes only in the critical section of the thread that holds priv->lock.
C15_Original ==
    [][ (GuardedState' # GuardedState /\ ~DestructorStep)
        => \/ /\ priv.lock = "producer"
              /\ producer.pc \in {"setBuffer_locked", "setCaps_locked"}
              /\ producer'.pc = "idle"
           \/ /\ priv.lock = "render"
              /\ PaintStep
      ]_vars

\* C16 as stated: no step of the producer changes priv->context,
\* priv->other_context or priv->display.
C16_Original ==
    [][ producer' # producer
        => /\ priv'.context = priv.context
           /\ priv'.other_context = priv.other_context
           /\ priv'.display = priv.display
      ]_vars

\* C17: a paint does not consume the slot.  A paint that finds a buffer in
\* the slot attaches that buffer and leaves it in the slot; after it the
\* buffer carries the slot's reference and the texture's; and as long as a
\* buffer is attached the texture's reference is there besides the slot's.
C17_PaintKeepsSlot ==
    [][ /\ (PaintStep /\ priv.caps # "NULL" /\ priv.buffer # NoBuffer)
           => /\ priv'.buffer = priv.buffer
              /\ tex'.buffer = priv.buffer
              /\ refs'[priv.buffer] >= 2
              /\ refs'[priv.buffer] = Held(priv', tex', priv.buffer)
        /\ tex'.buffer # NoBuffer
           => refs'[tex'.buffer] >= 1 + (IF priv'.buffer = tex'.buffer THEN 1 ELSE 0)
      ]_vars

\* C17's case: a paint has attached the slot's buffer, which is still in
\* the slot and carries two references.
C17_Witness ==
    /\ render.pc = "idle" /\ render.ret = "texNode"
    /\ priv.buffer # NoBuffer
    /\ tex.buffer = priv.buffer
    /\ refs[priv.buffer] = 2
    /\ ~tex.was_bound
    /\ ~update_pending

\* The references the slot and the two queues account for.
HeldByItem(p, f) ==
    (IF p.buffer = f THEN 1 ELSE 0)
      + Count(p.bound_buffers, f) + Count(p.potentially_unbound_buffers, f)

\* C18: no leak at teardown.  The destructor releases, for every buffer,
\* exactly the references the slot and the queues held; after it the slot
\* and both queues are empty and the only reference left on a buffer is the
\* one of the texture it is attached to.
C18_NoLeakAtTeardown ==
    /\ [][ DestructorStep
           => \A f \in Frames : refs'[f] = refs[f] - HeldByItem(priv, f) ]_vars
    /\ [](render.pc = "destroyed"
           => /\ priv.buffer = NoBuffer
              /\ priv.bound_buffers = <<>>
              /\ priv.potentially_unbound_buffers = <<>>
              /\ \A f \in Frames : refs[f] = (IF tex.buffer = f THEN 1 ELSE 0))

\* C18's case: the item was destroyed while the slot held a buffer that
\* was not the texture's and after the queues had been in use.
C18_Witness ==
    /\ render.pc = "destroyed"
    /\ last_delivered # NoBuffer
    /\ tex.buffer # NoBuffer
    /\ tex.buffer # last_delivered
    /\ last_released # <<>>
    /\ refs[last_delivered] = 0

\* C19 as stated: when the last call of the producer was a setCaps that
\* returned TRUE, the item is negotiated.
C19_Original ==
    (producer.pc = "idle" /\ producer.op = "setCaps" /\ producer.ret = "TRUE")
        => priv.negotiated

\* C20: bounded history.  Each of the two queues holds at most one buffer.
C20_BoundedHistory ==
    /\ Len(priv.bound_buffers) <= 1
    /\ Len(priv.potentially_unbound_buffers) <= 1

\* C20's case: a paint has rotated full queues: it let a buffer go and both
\* queues hold one buffer again, neither of them the texture's.
C20_Witness ==
    /\ render.pc = "idle" /\ render.ret = "texNode"
    /\ Len(priv.bound_buffers) = 1
    /\ Len(priv.potentially_unbound_buffers) = 1
    /\ last_released # <<>>
    /\ tex.buffer # NoBuffer
    /\ priv.bound_buffers[1] # tex.buffer
    /\ priv.potentially_unbound_buffers[1] # tex.buffer
    /\ priv.potentially_unbound_buffers[1] # priv.bound_buffers[1]

\* C21: a setCaps with the caps the item already stores returns TRUE at
\* once and changes nothing of the item: the slot, negotiated, the display
\* size, the queues and the reference counts are as before; a _reset runs
\* only for caps that differ from the stored ones.
C21_SameCapsNoOp ==
    [][ /\ \A caps \in OfferedCaps :
              (proxy.qt_item # "NULL" /\ priv.caps = caps /\ setCaps_begin(caps))
              => /\ producer'.pc = "idle"
                 /\ producer'.op = "setCaps"
                 /\ producer'.ret = "TRUE"
                 /\ UNCHANGED <<priv, item, proxy, tex, refs, update_pending, render,
                                last_delivered, slot_caps, last_released>>
        /\ ResetStep => priv.caps # producer.caps
      ]_vars

\* C21's case: the last call was a setCaps that returned TRUE, and the slot
\* and bound_buffers still hold the buffers delivered and tracked before.
C21_Witness ==
    /\ producer.pc = "idle" /\ producer.op = "setCaps" /\ producer.ret = "TRUE"
    /\ priv.negotiated
    /\ priv.buffer # NoBuffer
    /\ last_delivered = priv.buffer
    /\ priv.bound_buffers # <<>>
    /\ refs[priv.buffer] >= 1

\* The producer is inside a call; the render thread is inside a paint.
ProducerInCall == producer.pc # "idle"
RenderInPaint == render.pc \in {"updatePaintNode_lock", "updatePaintNode_locked"}

\* C22: deadlock freedom.  The proxy's lock is held only by a producer
\* inside a call and priv->lock only by a thread inside its critical
\* section, so a thread that is not in a call holds no lock and the render
\* thread never holds one lock while it waits for the other; every call of
\* the producer and every paint returns; and the proxy's lock, for which
\* invalidateRef waits, is free again and again.
C22_DeadlockFreedom ==
    /\ [](/\ proxy.lock = "producer" <=> ProducerInCall
          /\ priv.lock = "producer"
               <=> producer.pc \in {"setBuffer_locked", "setCaps_locked",
                                    "initWinSys_locked"}
          /\ priv.lock = "render" <=> render.pc = "updatePaintNode_locked"
          /\ proxy.lock \in {"free", "producer"})
    /\ ProducerInCall ~> ~ProducerInCall
    /\ RenderInPaint ~> ~RenderInPaint
    /\ (render.pc = "destructor") ~> (render.pc = "destroyed")
    /\ []<>(proxy.lock = "free")

\* C22's case: the producer, inside initWinSys and holding the proxy's lock,
\* waits for priv->lock while a paint holds it.
C22_Witness ==
    /\ producer.pc = "initWinSys_lock"
    /\ proxy.lock = "producer"
    /\ render.pc = "updatePaintNode_locked"
    /\ priv.lock = "render"
    /\ priv.caps = CapsDegenerate

=============================================================================
